---- MODULE Spec2Model ----
(***************************************************************************)
(* Model of the goose migration engine: collection and sequencing of       *)
(* migrations (migrate.go), the history readers (migrate.go), the apply    *)
(* loops UpTo / UpAll and the history repairer fixUp (up.go).              *)
(* The apply loops run on a directory of migration scripts, one process    *)
(* per call; the registry of Go migrations, which lives as long as the     *)
(* process, is followed over several collections of one process.           *)
(***************************************************************************)
EXTENDS Integers, Sequences, FiniteSets, TLC

(* ------------------------------ bounds -------------------------------- *)

\* largest migration version that occurs in the migrations directory
MaxVer == 5

\* largest number of rows the history table of the engine runs may hold
MaxRows == 8

\* longest input handed to the sequencer when it is checked on its own
MaxSeqLen == 3

\* largest number of rows / largest version of the history tables the state
\* reader and the repairer are checked on when they are checked on their own
MaxHistLen == 4
MaxHistVer == 2

\* largest version of the directories the apply loops are run on when
\* scripts may fail
MaxFailVer == 3

\* largest version / largest number of files of the directories the
\* collectors are called on in one process with a registry
MaxRegVer == 2
MaxDirLen == 2

\* largest number of rows of the history tables / largest version of the
\* migrations a single migration is run on
MaxRunLen == 2
MaxRunVer == 2

(* ----------------------------- constants ------------------------------ *)

\* lower bound handed to the collectors by UpTo and UpAll
minVersion == 0

\* max(int64): modelled as a version above every migration version
MaxVersion == MaxVer + 1

\* the timestamp column is finer than a second: ticks per second
TicksPerSecond == 2

Versions == 1..MaxVer

VARIABLES
    files,      \* versions of the migration scripts in the directory
    db,         \* the database: history table, its serial and its clock
    pc,         \* "idle", or the apply loop that is running
    ms,         \* the collected, linked sequence of the running loop
    target,     \* the version argument of the running UpTo
    executed,   \* versions executed forward by the current / last loop
    ret,        \* what the last operation returned
    before,     \* the database when the current / last operation began
    input,      \* sequencer check: the collected, unsorted migrations
    appliedArg, \* the applied map handed over / returned (the set of true keys)
    dir,        \* registry check: the files filepath.Glob lists, by kind
    registered, \* registeredGoMigrations: version -> the registered migration
    args,       \* the arguments of the function applied last
    broken      \* versions of the scripts the script runner fails on

vars == <<files, db, pc, ms, target, executed, ret, before, input, appliedArg,
          dir, registered, args, broken>>

(* ------------------------- migrations (migrate.go) -------------------- *)

\* &Migration{Version: v, Next: -1, Previous: -1, Source: file}: a script.
\* Source is the extension of the file, which is all run looks at.
Migration(v) ==
    [Version |-> v, Next |-> -1, Previous |-> -1, Source |-> ".sql",
     Registered |-> FALSE]

\* &Migration{..., Source: file, Registered: r}: a Go migration
GoMigration(v, r) ==
    [Version |-> v, Next |-> -1, Previous |-> -1, Source |-> ".go",
     Registered |-> r]

NilMigration ==
    [Version |-> -1, Next |-> -1, Previous |-> -1, Source |-> "",
     Registered |-> FALSE]

\* a directory without files; registeredGoMigrations = map[int64]*Migration{}
NoFiles == [sql |-> <<>>, go |-> <<>>]
NoRegistry == {}

\* Migrations.Less
Less(a, b) == a.Version < b.Version

\* Migrations.Less panics when it is handed two migrations of one version
LessPanics(a, b) == a.Version = b.Version

RECURSIVE SortInsert(_, _)
SortInsert(s, m) ==
    IF s = <<>> THEN <<m>>
    ELSE IF Less(m, Head(s)) THEN <<m>> \o s
    ELSE <<Head(s)>> \o SortInsert(Tail(s), m)

\* sort.Sort(migrations)
RECURSIVE SortMigrations(_)
SortMigrations(migrations) ==
    IF migrations = <<>> THEN <<>>
    ELSE SortInsert(SortMigrations(Tail(migrations)), Head(migrations))

\* the comparisons of SortInsert: one of them panics
RECURSIVE InsertPanics(_, _)
InsertPanics(s, m) ==
    IF s = <<>> THEN FALSE
    ELSE IF LessPanics(m, Head(s)) THEN TRUE
    ELSE IF Less(m, Head(s)) THEN FALSE
    ELSE InsertPanics(Tail(s), m)

\* sort.Sort(migrations) panics
RECURSIVE SortPanics(_)
SortPanics(migrations) ==
    IF migrations = <<>> THEN FALSE
    ELSE \/ SortPanics(Tail(migrations))
         \/ InsertPanics(SortMigrations(Tail(migrations)), Head(migrations))

\* the loop of sortAndConnectMigrations, from index i (1-based) on
RECURSIVE ConnectLoop(_, _)
ConnectLoop(migrations, i) ==
    IF i > Len(migrations) THEN migrations
    ELSE LET prev == IF i > 1 THEN migrations[i-1].Version ELSE -1
             m1 == IF i > 1
                   THEN [migrations EXCEPT ![i-1].Next = migrations[i].Version]
                   ELSE migrations
             m2 == [m1 EXCEPT ![i].Previous = prev]
         IN ConnectLoop(m2, i + 1)

\* mutant: the successor link is never written
sortAndConnectMigrationsNoNext(migrations) ==
    LET s == SortMigrations(migrations)
    IN [i \in 1..Len(s) |->
          [s[i] EXCEPT !.Previous = IF i > 1 THEN s[i-1].Version ELSE -1]]

sortAndConnectMigrations(migrations) ==
    ConnectLoop(SortMigrations(migrations), 1)

\* The migrations are pointers: am and um alias the elements of the sorted
\* slice.  heap is the sorted slice, am and um are sequences of indices
\* into it.
RECURSIVE Partition(_, _, _, _)
Partition(heap, appliedSet, i, want) ==
    IF i > Len(heap) THEN <<>>
    ELSE IF (heap[i].Version \in appliedSet) = want
         THEN <<i>> \o Partition(heap, appliedSet, i + 1, want)
         ELSE Partition(heap, appliedSet, i + 1, want)

\* "connect applied migrations": indexes migrations[], not am[]
RECURSIVE ConnectApplied(_, _, _)
ConnectApplied(heap, am, i) ==
    IF i > Len(am) THEN heap
    ELSE LET prev == IF i > 1 THEN heap[i-1].Version ELSE -1
             h1 == IF i > 1
                   THEN [heap EXCEPT ![i-1].Next = heap[am[i]].Version]
                   ELSE heap
             h2 == [h1 EXCEPT ![i].Previous = prev]
         IN ConnectApplied(h2, am, i + 1)

\* "connect unapplied migrations"
RECURSIVE ConnectUnapplied(_, _, _)
ConnectUnapplied(heap, um, i) ==
    IF i > Len(um) THEN heap
    ELSE LET prev == IF i > 1 THEN heap[um[i-1]].Version ELSE -1
             h1 == IF i > 1
                   THEN [heap EXCEPT ![um[i-1]].Next = heap[um[i]].Version]
                   ELSE heap
             h2 == [h1 EXCEPT ![um[i]].Previous = prev]
         IN ConnectUnapplied(h2, um, i + 1)

\* mutant: the sorted slice is returned instead of append(am, um...)
sortAndConnectAllMigrationsSorted(migrations, appliedSet) ==
    LET sorted == SortMigrations(migrations)
        am == Partition(sorted, appliedSet, 1, TRUE)
        um == Partition(sorted, appliedSet, 1, FALSE)
        h1 == ConnectApplied(sorted, am, 1)
        h2 == ConnectUnapplied(h1, um, 1)
        h3 == IF Len(um) = 1 THEN [h2 EXCEPT ![um[1]].Next = -1] ELSE h2
        h4 == [h3 EXCEPT ![am[Len(am)]].Next = h3[um[1]].Version]
        h5 == [h4 EXCEPT ![um[1]].Previous = h4[am[Len(am)]].Version]
    IN IF Len(am) = 0 \/ Len(um) = 0 THEN h2 ELSE h5

sortAndConnectAllMigrations(migrations, appliedSet) ==
    LET sorted == SortMigrations(migrations)
        am == Partition(sorted, appliedSet, 1, TRUE)
        um == Partition(sorted, appliedSet, 1, FALSE)
        h1 == ConnectApplied(sorted, am, 1)
        h2 == ConnectUnapplied(h1, um, 1)
        h3 == IF Len(um) = 1 THEN [h2 EXCEPT ![um[1]].Next = -1] ELSE h2
        h4 == [h3 EXCEPT ![am[Len(am)]].Next = h3[um[1]].Version]
        h5 == [h4 EXCEPT ![um[1]].Previous = h4[am[Len(am)]].Version]
        h  == IF Len(am) = 0 \/ Len(um) = 0 THEN h2 ELSE h5
        out == IF Len(am) = 0 THEN um ELSE am \o um
    IN [j \in 1..Len(out) |-> h[out[j]]]

\* mutant: the forward range includes the current version
versionFilterFromCurrent(v, current, tgt) ==
    IF tgt > current THEN v >= current /\ v <= tgt
    ELSE IF tgt < current THEN v <= current /\ v > tgt
    ELSE FALSE

\* versionFilter
versionFilter(v, current, tgt) ==
    IF tgt > current THEN v > current /\ v <= tgt
    ELSE IF tgt < current THEN v <= current /\ v > tgt
    ELSE FALSE

\* unappliedVersionFilter
unappliedVersionFilter(v, current, tgt, isApplied) ==
    IF ~isApplied THEN TRUE
    ELSE IF tgt > current THEN v > current /\ v <= tgt
    ELSE FALSE

\* the files of a directory in the order filepath.Glob lists them
RECURSIVE Listing(_)
Listing(S) ==
    IF S = {} THEN <<>>
    ELSE LET v == CHOOSE x \in S : \A y \in S : x <= y
         IN <<v>> \o Listing(S \ {v})

\* the directory that holds the scripts of the versions in S and nothing else
ScriptsOnly(S) == [sql |-> Listing(S), go |-> <<>>]

\* the directory of the apply loops: the scripts of the versions in S and
\* the Go files of d
DirOf(S, d) == [ScriptsOnly(S) EXCEPT !.go = d.go]

\* registeredGoMigrations[v] and its ok
IsRegistered(reg, v) == \E m \in reg : m.Version = v
RegisteredAt(reg, v) == CHOOSE m \in reg : m.Version = v

\* AddNamedMigration: the registry afterwards, or the panic on a version
\* that is registered already
AddNamedMigration(reg, v) ==
    IF IsRegistered(reg, v) THEN [reg |-> reg, err |-> "panic"]
    ELSE [reg |-> reg \cup {GoMigration(v, TRUE)}, err |-> "nil"]

\* the versions of the files of the directory and of the registry
VersionsAtHand(d, reg) ==
    {d.sql[i] : i \in 1..Len(d.sql)} \cup {d.go[i] : i \in 1..Len(d.go)}
        \cup {m.Version : m \in reg}

\* mutant: a Go file is collected although its version is registered
CollectedNoSkip(d, reg, keep) ==
    LET sqlKept == SelectSeq(d.sql, LAMBDA v : v \in keep)
        regKept == SelectSeq(Listing({m.Version : m \in reg}),
                             LAMBDA v : v \in keep)
        goKept == SelectSeq(d.go, LAMBDA v : v \in keep)
    IN [i \in 1..Len(sqlKept) |-> Migration(sqlKept[i])]
       \o [i \in 1..Len(regKept) |-> RegisteredAt(reg, regKept[i])]
       \o [i \in 1..Len(goKept) |-> GoMigration(goKept[i], FALSE)]

\* the three loops of the collectors, keep being the versions the filter
\* lets pass: a new migration for every script kept, the registered
\* migrations kept (the objects of the registry, with the links they carry),
\* a new unregistered migration for every Go file kept whose version is not
\* registered
Collected(d, reg, keep) ==
    LET sqlKept == SelectSeq(d.sql, LAMBDA v : v \in keep)
        regKept == SelectSeq(Listing({m.Version : m \in reg}),
                             LAMBDA v : v \in keep)
        goKept == SelectSeq(d.go,
                            LAMBDA v : ~IsRegistered(reg, v) /\ v \in keep)
    IN [i \in 1..Len(sqlKept) |-> Migration(sqlKept[i])]
       \o [i \in 1..Len(regKept) |-> RegisteredAt(reg, regKept[i])]
       \o [i \in 1..Len(goKept) |-> GoMigration(goKept[i], FALSE)]

\* the registry after the sequencer wrote the links of the migrations of
\* mseq: the registered ones are the objects of the registry
WriteBack(reg, mseq) ==
    {IF \E i \in 1..Len(mseq) :
            mseq[i].Registered /\ mseq[i].Version = m.Version
     THEN mseq[CHOOSE i \in 1..Len(mseq) :
                   mseq[i].Registered /\ mseq[i].Version = m.Version]
     ELSE m : m \in reg}

\* CollectMigrations(dir, current, target): the sequence returned, the error
\* ("panic" when the sort panics), the registry afterwards, and the
\* migrations as they were collected
CollectMigrations(d, reg, current, tgt) ==
    LET c == Collected(d, reg, {v \in VersionsAtHand(d, reg) :
                                   versionFilter(v, current, tgt)})
    IN IF SortPanics(c)
       THEN [ms |-> <<>>, err |-> "panic", reg |-> reg, collected |-> c]
       ELSE LET r == sortAndConnectMigrations(c)
            IN [ms |-> r, err |-> "nil", reg |-> WriteBack(reg, r),
                collected |-> c]

\* CollectAllMigrations(dir, applied, current, target)
CollectAllMigrations(d, reg, appliedSet, current, tgt) ==
    LET c == Collected(d, reg, {v \in VersionsAtHand(d, reg) :
                                   unappliedVersionFilter(v, current, tgt,
                                                          v \in appliedSet)})
    IN IF SortPanics(c)
       THEN [ms |-> <<>>, err |-> "panic", reg |-> reg, collected |-> c]
       ELSE LET r == sortAndConnectAllMigrations(c, appliedSet)
            IN [ms |-> r, err |-> "nil", reg |-> WriteBack(reg, r),
                collected |-> c]

\* Migrations.Current
MigrationsCurrent(mseq, current) ==
    IF \E i \in 1..Len(mseq) : mseq[i].Version = current
    THEN LET i == CHOOSE k \in 1..Len(mseq) :
                    /\ mseq[k].Version = current
                    /\ \A j \in 1..(k-1) : mseq[j].Version # current
         IN [err |-> "nil", m |-> mseq[i]]
    ELSE [err |-> "ErrNoCurrentVersion", m |-> NilMigration]

\* Migrations.Next; ms[0] of an empty slice is an index-out-of-range panic
MigrationsNext(mseq, current) ==
    IF current = 0
    THEN IF Len(mseq) = 0 THEN [err |-> "panic", m |-> NilMigration]
         ELSE [err |-> "nil", m |-> mseq[1]]
    ELSE LET cur == MigrationsCurrent(mseq, current)
         IN IF cur.err # "nil" THEN cur
            ELSE IF cur.m.Next = -1
                 THEN [err |-> "ErrNoNextVersion", m |-> NilMigration]
                 ELSE MigrationsCurrent(mseq, cur.m.Next)

(* --------------------------- the database ------------------------------ *)

\* A history row (MigrationRecord).  TStamp counts ticks.
Row(id, v, a, t) == [ID |-> id, VersionID |-> v, IsApplied |-> a, TStamp |-> t]

\* prevRow == nil
NilRow == Row(-1, -1, FALSE, -1)

\* The steps of a transaction the database can refuse: db.Begin, the
\* statement that creates the table, the migration procedure, the statement
\* that writes the history, tx.Commit.  The field fault of the database names
\* the step that fails, "none" when every step succeeds.
Faults == {"none", "begin", "create", "fn", "exec", "commit"}

\* a database without a history table; schema holds the versions whose
\* forward changes are in the database
NoTable ==
    [exists |-> FALSE, rows |-> <<>>, serial |-> 1, clock |-> 1,
     schema |-> {}, fault |-> "none"]

\* insertVersionSQL: the database assigns the next row identifier and now()
insertVersion(d, v, a) ==
    [d EXCEPT !.rows = Append(d.rows, Row(d.serial, v, a, d.clock)),
              !.serial = d.serial + 1,
              !.clock = d.clock + 1]

\* mutant: a failed seeding returns without txn.Rollback, the connection
\* commits what the transaction did so far
createVersionTableNoRollback(d) ==
    IF d.fault = "begin" THEN [db |-> d, err |-> "begin"]
    ELSE IF d.fault = "create" THEN [db |-> d, err |-> "create"]
    ELSE LET created == [d EXCEPT !.exists = TRUE, !.rows = <<>>]
         IN IF d.fault = "exec" THEN [db |-> created, err |-> "exec"]
            ELSE IF d.fault = "commit" THEN [db |-> d, err |-> "commit"]
            ELSE [db |-> insertVersion(created, 0, TRUE), err |-> "nil"]

\* createVersionTable: in one transaction create the table and insert
\* {0, true}; the database afterwards and the error returned
createVersionTable(d) ==
    IF d.fault = "begin" THEN [db |-> d, err |-> "begin"]
    ELSE IF d.fault = "create" THEN [db |-> d, err |-> "create"]
    ELSE LET created == [d EXCEPT !.exists = TRUE, !.rows = <<>>]
         IN IF d.fault = "exec" THEN [db |-> d, err |-> "exec"]
            ELSE IF d.fault = "commit" THEN [db |-> d, err |-> "commit"]
            ELSE [db |-> insertVersion(created, 0, TRUE), err |-> "nil"]

\* dbVersionQuery: the rows by descending identifier (rows are kept by
\* ascending identifier)
dbVersionQuery(d) ==
    [i \in 1..Len(d.rows) |-> d.rows[Len(d.rows) + 1 - i]]

\* the scan of EnsureDBVersion from row i on, toSkip as a set
RECURSIVE EnsureScan(_, _, _)
EnsureScan(rows, i, toSkip) ==
    IF i > Len(rows) THEN [version |-> 0, err |-> "ErrNoNextVersion"]
    ELSE IF rows[i].VersionID \in toSkip THEN EnsureScan(rows, i + 1, toSkip)
    ELSE IF rows[i].IsApplied THEN [version |-> rows[i].VersionID, err |-> "nil"]
    ELSE EnsureScan(rows, i + 1, toSkip \cup {rows[i].VersionID})

\* mutant: versions whose latest record is a rollback are not skipped
EnsureDBVersionNoSkip(d) ==
    IF ~d.exists
    THEN LET c == createVersionTable(d)
         IN [version |-> 0, err |-> c.err, db |-> c.db]
    ELSE LET rows == dbVersionQuery(d)
             hit == {i \in 1..Len(rows) : rows[i].IsApplied}
         IN IF hit = {} THEN [version |-> 0, err |-> "ErrNoNextVersion", db |-> d]
            ELSE [version |-> rows[CHOOSE i \in hit : \A j \in hit : i <= j].VersionID,
                  err |-> "nil", db |-> d]

\* EnsureDBVersion: the version, the error and the database afterwards
EnsureDBVersion(d) ==
    IF ~d.exists
    THEN LET c == createVersionTable(d)
         IN [version |-> 0, err |-> c.err, db |-> c.db]
    ELSE LET r == EnsureScan(dbVersionQuery(d), 1, {})
         IN [version |-> r.version, err |-> r.err, db |-> d]

\* GetDBVersion: -1 on error
GetDBVersion(d) ==
    LET r == EnsureDBVersion(d)
    IN IF r.err # "nil" THEN [r EXCEPT !.version = -1] ELSE r

\* the scan of AppliedDBVersions from row i on
RECURSIVE AppliedScan(_, _, _, _)
AppliedScan(rows, i, applied, failed) ==
    IF i > Len(rows) THEN applied
    ELSE IF rows[i].IsApplied /\ rows[i].VersionID \notin failed
         THEN AppliedScan(rows, i + 1, applied \cup {rows[i].VersionID}, failed)
         ELSE AppliedScan(rows, i + 1, applied, failed \cup {rows[i].VersionID})

\* mutant: the map failed is not consulted
AppliedDBVersionsAnyApplied(d) ==
    IF ~d.exists
    THEN LET c == createVersionTable(d)
         IN [applied |-> {}, err |-> c.err, db |-> c.db]
    ELSE [applied |-> {d.rows[i].VersionID :
                          i \in {k \in 1..Len(d.rows) : d.rows[k].IsApplied}},
          err |-> "nil", db |-> d]

\* AppliedDBVersions: the keys of the map (the only value the code ever
\* stores is true)
AppliedDBVersions(d) ==
    IF ~d.exists
    THEN LET c == createVersionTable(d)
         IN [applied |-> {}, err |-> c.err, db |-> c.db]
    ELSE [applied |-> AppliedScan(dbVersionQuery(d), 1, {}, {}),
          err |-> "nil", db |-> d]

\* row.TStamp.Format(time.RFC3339), read back by the database: RFC3339 has
\* no fraction of a second
FormatRFC3339(t) == (t \div TicksPerSecond) * TicksPerSecond

\* UPDATE ... SET version_id, is_applied, tstamp WHERE id = row.ID
UpdateOf(row) == [row EXCEPT !.TStamp = FormatRFC3339(row.TStamp)]

\* swapRows: exchanges the identifiers of the two records and writes both;
\* returns the two modified records and the statements executed
swapRows(row1, row2) ==
    LET r1 == [row1 EXCEPT !.ID = row2.ID]
        r2 == [row2 EXCEPT !.ID = row1.ID]
    IN [row1 |-> r1, row2 |-> r2, updates |-> <<UpdateOf(r1), UpdateOf(r2)>>]

\* the loop of fixUp from row i on: the UPDATE statements of the transaction
RECURSIVE FixUpLoop(_, _, _, _)
FixUpLoop(rows, i, prevRow, updates) ==
    IF i > Len(rows) THEN updates
    ELSE LET row == rows[i]
         IN IF prevRow = NilRow THEN FixUpLoop(rows, i + 1, row, updates)
            ELSE IF prevRow.ID > row.ID /\ prevRow.VersionID < row.VersionID
                 THEN LET sw == swapRows(prevRow, row)
                      IN FixUpLoop(rows, i + 1, sw.row1, updates \o sw.updates)
            ELSE IF prevRow.ID < row.ID /\ prevRow.VersionID > row.VersionID
                 THEN LET sw == swapRows(prevRow, row)
                      IN FixUpLoop(rows, i + 1, sw.row2, updates \o sw.updates)
            ELSE FixUpLoop(rows, i + 1, row, updates)

\* tx.Commit: the statements take effect in the order they were executed
RECURSIVE ApplyUpdates(_, _)
ApplyUpdates(rows, updates) ==
    IF updates = <<>> THEN rows
    ELSE ApplyUpdates(
           [i \in 1..Len(rows) |->
              IF rows[i].ID = Head(updates).ID THEN Head(updates) ELSE rows[i]],
           Tail(updates))

\* fixUp: the database after the repair committed
fixUp(d) ==
    [d EXCEPT !.rows = ApplyUpdates(d.rows,
                          FixUpLoop(dbVersionQuery(d), 1, NilRow, <<>>))]

\* deleteVersionSQL: removes the records of the version
deleteVersion(d, v) ==
    [d EXCEPT !.rows = SelectSeq(d.rows, LAMBDA r : r.VersionID # v)]

\* the procedure of a migration: forward it puts the changes of the version
\* into the database, backward it takes them out
ApplyFn(d, v, direction) ==
    [d EXCEPT !.schema = IF direction THEN @ \cup {v} ELSE @ \ {v}]

\* runSQLMigration: the script and its history record commit together, a
\* failure leaves the database as it was
runSQLMigration(d, v, direction) ==
    IF d.fault # "none" \/ ~d.exists THEN [db |-> d, err |-> "exec"]
    ELSE [db |-> insertVersion(ApplyFn(d, v, direction), v, direction),
          err |-> "nil"]

\* mutant: the history record is written on the connection, outside the
\* transaction of the procedure
runNoTx(d, m, direction) ==
    IF m.Source = ".sql"
    THEN LET r == runSQLMigration(d, m.Version, direction)
         IN IF r.err # "nil"
            THEN [r EXCEPT !.err = "failed to run SQL migration"]
            ELSE r
    ELSE IF m.Source = ".go"
    THEN IF ~m.Registered
         THEN [db |-> d, err |-> "Go functions must be registered"]
         ELSE IF d.fault = "begin"
         THEN [db |-> d, err |-> "failed to begin transaction"]
         ELSE IF d.fault = "fn"
         THEN [db |-> d, err |-> "failed to run Go migration"]
         ELSE IF d.fault = "exec" \/ ~d.exists
         THEN [db |-> d, err |-> "failed to execute transaction"]
         ELSE LET written == IF direction
                             THEN insertVersion(d, m.Version, TRUE)
                             ELSE deleteVersion(d, m.Version)
              IN IF d.fault = "commit"
                 THEN [db |-> written, err |-> "failed to commit transaction"]
                 ELSE [db |-> ApplyFn(written, m.Version, direction),
                       err |-> "nil"]
    ELSE [db |-> d, err |-> "nil"]

\* mutant: the transaction is begun before Registered is looked at
runBeginFirst(d, m, direction) ==
    IF m.Source = ".sql"
    THEN LET r == runSQLMigration(d, m.Version, direction)
         IN IF r.err # "nil"
            THEN [r EXCEPT !.err = "failed to run SQL migration"]
            ELSE r
    ELSE IF m.Source = ".go"
    THEN IF d.fault = "begin"
         THEN [db |-> d, err |-> "failed to begin transaction"]
         ELSE IF ~m.Registered
         THEN [db |-> d, err |-> "Go functions must be registered"]
         ELSE IF d.fault = "fn"
         THEN [db |-> d, err |-> "failed to run Go migration"]
         ELSE IF d.fault = "exec" \/ ~d.exists
         THEN [db |-> d, err |-> "failed to execute transaction"]
         ELSE LET afterFn == ApplyFn(d, m.Version, direction)
                  written == IF direction
                             THEN insertVersion(afterFn, m.Version, TRUE)
                             ELSE deleteVersion(afterFn, m.Version)
              IN IF d.fault = "commit"
                 THEN [db |-> d, err |-> "failed to commit transaction"]
                 ELSE [db |-> written, err |-> "nil"]
    ELSE [db |-> d, err |-> "nil"]

\* Migration.run: the database afterwards and the error returned.  What the
\* transaction did takes effect at tx.Commit; a failed step leaves the
\* database as it was when the transaction began.
run(d, m, direction) ==
    IF m.Source = ".sql"
    THEN LET r == runSQLMigration(d, m.Version, direction)
         IN IF r.err # "nil"
            THEN [r EXCEPT !.err = "failed to run SQL migration"]
            ELSE r
    ELSE IF m.Source = ".go"
    THEN IF ~m.Registered
         THEN [db |-> d, err |-> "Go functions must be registered"]
         ELSE IF d.fault = "begin"
         THEN [db |-> d, err |-> "failed to begin transaction"]
         ELSE IF d.fault = "fn"
         THEN [db |-> d, err |-> "failed to run Go migration"]
         ELSE IF d.fault = "exec" \/ ~d.exists
         THEN [db |-> d, err |-> "failed to execute transaction"]
         ELSE LET afterFn == ApplyFn(d, m.Version, direction)
                  written == IF direction
                             THEN insertVersion(afterFn, m.Version, TRUE)
                             ELSE deleteVersion(afterFn, m.Version)
              IN IF d.fault = "commit"
                 THEN [db |-> d, err |-> "failed to commit transaction"]
                 ELSE [db |-> written, err |-> "nil"]
    ELSE [db |-> d, err |-> "nil"]

\* the errors run returns
RunErrors ==
    {"failed to run SQL migration", "Go functions must be registered",
     "failed to begin transaction", "failed to run Go migration",
     "failed to execute transaction", "failed to commit transaction"}

\* Migration.Up: run forward
MigrationUp(d, m) == run(d, m, TRUE)

\* Migration.Down: run backward
MigrationDown(d, m) == run(d, m, FALSE)

(* ----------------------- the apply loops (up.go) ---------------------- *)

Result(op, err, version) == [op |-> op, err |-> err, version |-> version]

\* what the run of m meets: the database refuses the transaction of the
\* run of a broken version from its first step on
ScriptFault(m) == IF m.Version \in broken THEN "begin" ELSE "none"

\* the version arguments UpTo is called with (Up passes the maximum)
Targets == 0..MaxVersion

Init ==
    /\ files = {}
    /\ db = NoTable
    /\ pc = "idle"
    /\ ms = <<>>
    /\ target = 0
    /\ executed = <<>>
    /\ ret = Result("none", "nil", 0)
    /\ before = NoTable
    /\ input = <<>>
    /\ appliedArg = {}
    /\ dir = NoFiles
    /\ registered = NoRegistry
    /\ args = <<>>
    /\ broken = {}

\* a migration script with version v appears in the directory
AddMigrationFile(v) ==
    /\ pc = "idle"
    /\ v \notin files
    /\ files' = files \cup {v}
    /\ UNCHANGED <<db, pc, ms, target, executed, ret, before, input, appliedArg, dir, registered, args, broken>>

\* UpTo, up to its loop
UpToBegin(t) ==
    /\ pc = "idle"
    /\ ms' = CollectMigrations(DirOf(files, dir), NoRegistry, minVersion, t).ms
    /\ pc' = "UpTo"
    /\ target' = t
    /\ executed' = <<>>
    /\ ret' = Result("UpTo", "running", 0)
    /\ before' = db
    /\ UNCHANGED <<files, db, input, appliedArg, dir, registered, args, broken>>

\* mutant: the loop goes on after a failed run
UpToStepRetry ==
    /\ pc = "UpTo"
    /\ LET g == GetDBVersion(db)
           n == MigrationsNext(ms, g.version)
       IN IF g.err # "nil"
          THEN /\ db' = g.db
               /\ pc' = "idle"
               /\ ret' = Result("UpTo", g.err, g.version)
               /\ UNCHANGED executed
          ELSE IF n.err = "ErrNoNextVersion"
          THEN /\ db' = g.db
               /\ pc' = "idle"
               /\ ret' = Result("UpTo", "nil", g.version)
               /\ UNCHANGED executed
          ELSE IF n.err # "nil"
          THEN /\ db' = g.db
               /\ pc' = "idle"
               /\ ret' = Result("UpTo", n.err, g.version)
               /\ UNCHANGED executed
          ELSE LET r == MigrationUp(
                            [g.db EXCEPT !.fault = ScriptFault(n.m)], n.m)
               IN IF r.err # "nil"
                  THEN /\ db' = [r.db EXCEPT !.fault = "none"]
                       /\ pc' = pc
                       /\ ret' = Result("UpTo", r.err, n.m.Version)
                       /\ UNCHANGED executed
                  ELSE /\ Len(g.db.rows) < MaxRows
                       /\ db' = r.db
                       /\ executed' = Append(executed, n.m.Version)
                       /\ UNCHANGED <<pc, ret>>
    /\ UNCHANGED <<files, ms, target, before, input, appliedArg, dir, registered, args, broken>>

\* one iteration of the loop of UpTo
UpToStep ==
    /\ pc = "UpTo"
    /\ LET g == GetDBVersion(db)
           n == MigrationsNext(ms, g.version)
       IN IF g.err # "nil"
          THEN /\ db' = g.db
               /\ pc' = "idle"
               /\ ret' = Result("UpTo", g.err, g.version)
               /\ UNCHANGED executed
          ELSE IF n.err = "ErrNoNextVersion"
          THEN /\ db' = g.db
               /\ pc' = "idle"
               /\ ret' = Result("UpTo", "nil", g.version)
               /\ UNCHANGED executed
          ELSE IF n.err # "nil"
          THEN /\ db' = g.db
               /\ pc' = "idle"
               /\ ret' = Result("UpTo", n.err, g.version)
               /\ UNCHANGED executed
          ELSE LET r == MigrationUp(
                            [g.db EXCEPT !.fault = ScriptFault(n.m)], n.m)
               IN IF r.err # "nil"
                  THEN /\ db' = [r.db EXCEPT !.fault = "none"]
                       /\ pc' = "idle"
                       /\ ret' = Result("UpTo", r.err, n.m.Version)
                       /\ UNCHANGED executed
                  ELSE /\ Len(g.db.rows) < MaxRows
                       /\ db' = r.db
                       /\ executed' = Append(executed, n.m.Version)
                       /\ UNCHANGED <<pc, ret>>
    /\ UNCHANGED <<files, ms, target, before, input, appliedArg, dir, registered, args, broken>>

\* UpAll, up to its loop
UpAllBegin ==
    /\ pc = "idle"
    /\ LET a == AppliedDBVersions(db)
       IN /\ db' = a.db
          /\ ms' = CollectAllMigrations(DirOf(files, dir), NoRegistry,
                                         a.applied, minVersion, MaxVersion).ms
    /\ pc' = "UpAll"
    /\ target' = MaxVersion
    /\ executed' = <<>>
    /\ ret' = Result("UpAll", "running", 0)
    /\ before' = db
    /\ UNCHANGED <<files, input, appliedArg, dir, registered, args, broken>>

\* one iteration of the loop of UpAll
UpAllStep ==
    /\ pc = "UpAll"
    /\ LET g == GetDBVersion(db)
           n == MigrationsNext(ms, g.version)
       IN IF g.err # "nil"
          THEN /\ db' = g.db
               /\ pc' = "idle"
               /\ ret' = Result("UpAll", g.err, g.version)
               /\ UNCHANGED executed
          ELSE IF n.err = "ErrNoNextVersion"
          THEN /\ db' = fixUp(g.db)
               /\ pc' = "idle"
               /\ ret' = Result("UpAll", "nil", g.version)
               /\ UNCHANGED executed
          ELSE IF n.err # "nil"
          THEN /\ db' = g.db
               /\ pc' = "idle"
               /\ ret' = Result("UpAll", n.err, g.version)
               /\ UNCHANGED executed
          ELSE LET r == MigrationUp(
                            [g.db EXCEPT !.fault = ScriptFault(n.m)], n.m)
               IN IF r.err # "nil"
                  THEN /\ db' = [r.db EXCEPT !.fault = "none"]
                       /\ pc' = "idle"
                       /\ ret' = Result("UpAll", r.err, n.m.Version)
                       /\ UNCHANGED executed
                  ELSE /\ Len(g.db.rows) < MaxRows
                       /\ db' = r.db
                       /\ executed' = Append(executed, n.m.Version)
                       /\ UNCHANGED <<pc, ret>>
    /\ UNCHANGED <<files, ms, target, before, input, appliedArg, dir, registered, args, broken>>

Next ==
    \/ \E v \in Versions : AddMigrationFile(v)
    \/ \E t \in Targets : UpToBegin(t)
    \/ UpToStep
    \/ UpAllBegin
    \/ UpAllStep

Spec == Init /\ [][Next]_vars

(* ---------------- the apply loops with failing scripts ----------------- *)

\* the versions of the Go files of a directory
GoVersions(d) == {d.go[i] : i \in 1..Len(d.go)}

\* every directory of scripts and Go files with pairwise distinct versions
\* up to MaxFailVer, none of the Go files registered in the binary, some of
\* the versions broken
InitFail ==
    /\ files \in SUBSET (1..MaxFailVer)
    /\ \E G \in SUBSET ((1..MaxFailVer) \ files) :
          dir = [sql |-> <<>>, go |-> Listing(G)]
    /\ broken \in SUBSET (files \cup GoVersions(dir))
    /\ db = NoTable
    /\ pc = "idle"
    /\ ms = <<>>
    /\ target = 0
    /\ executed = <<>>
    /\ ret = Result("none", "nil", 0)
    /\ before = NoTable
    /\ input = <<>>
    /\ appliedArg = {}
    /\ registered = NoRegistry
    /\ args = <<>>

\* the migration of version v is replaced by one whose run the database
\* refuses
BreakScript(v) ==
    /\ v \in (files \cup GoVersions(dir)) \ broken
    /\ broken' = broken \cup {v}
    /\ UNCHANGED <<files, db, pc, ms, target, executed, ret, before, input, appliedArg, dir, registered, args>>

\* the migration of version v is replaced by one whose run the database
\* lets pass
RepairScript(v) ==
    /\ v \in broken
    /\ broken' = broken \ {v}
    /\ UNCHANGED <<files, db, pc, ms, target, executed, ret, before, input, appliedArg, dir, registered, args>>

NextFail ==
    \/ \E v \in 1..MaxFailVer : BreakScript(v)
    \/ \E v \in 1..MaxFailVer : RepairScript(v)
    \/ \E t \in Targets : UpToBegin(t)
    \/ UpToStep
    \/ UpAllBegin
    \/ UpAllStep

SpecFail == InitFail /\ [][NextFail]_vars

(* ------------------- the filter on every small triple ----------------- *)

\* the versions and bounds the filter is applied to
FilterArgs == (-1)..MaxVersion

InitFilter ==
    /\ args \in FilterArgs \X FilterArgs \X FilterArgs
    /\ files = {}
    /\ db = NoTable
    /\ pc = "idle"
    /\ ms = <<>>
    /\ target = 0
    /\ executed = <<>>
    /\ ret = Result("none", "nil", 0)
    /\ before = NoTable
    /\ input = <<>>
    /\ appliedArg = {}
    /\ dir = NoFiles
    /\ registered = NoRegistry
    /\ broken = {}

\* versionFilter(args); the boolean returned is kept in err
FilterApply ==
    /\ ret.op = "none"
    /\ ret' = Result("versionFilter",
                     IF versionFilter(args[1], args[2], args[3])
                     THEN "true" ELSE "false", 0)
    /\ UNCHANGED <<files, db, pc, ms, target, executed, before, input, appliedArg, dir, registered, args, broken>>

NextFilter == FilterApply

SpecFilter == InitFilter /\ [][NextFilter]_vars

(* ------------- the sequencer on every small collected set -------------- *)

\* the sequences of at most MaxSeqLen pairwise distinct versions
SeqInputs ==
    UNION {{s \in [1..n -> Versions] :
              \A i, j \in 1..n : i # j => s[i] # s[j]} : n \in 0..MaxSeqLen}

InitSeq ==
    /\ input \in {[i \in 1..Len(s) |-> Migration(s[i])] : s \in SeqInputs}
    /\ appliedArg \in SUBSET Versions
    /\ files = {}
    /\ db = NoTable
    /\ pc = "idle"
    /\ ms = <<>>
    /\ target = 0
    /\ executed = <<>>
    /\ ret = Result("none", "nil", 0)
    /\ before = NoTable
    /\ dir = NoFiles
    /\ registered = NoRegistry
    /\ args = <<>>
    /\ broken = {}

\* sortAndConnectMigrations applied to the input
SeqSimple ==
    /\ ret.op = "none"
    /\ ms' = sortAndConnectMigrations(input)
    /\ ret' = Result("sortAndConnectMigrations", "nil", 0)
    /\ UNCHANGED <<files, db, pc, target, executed, before, input, appliedArg, dir, registered, args, broken>>

\* sortAndConnectAllMigrations applied to the input and the applied map
SeqAll ==
    /\ ret.op = "none"
    /\ ms' = sortAndConnectAllMigrations(input, appliedArg)
    /\ ret' = Result("sortAndConnectAllMigrations", "nil", 0)
    /\ UNCHANGED <<files, db, pc, target, executed, before, input, appliedArg, dir, registered, args, broken>>

NextSeq == SeqSimple \/ SeqAll

SpecSeq == InitSeq /\ [][NextSeq]_vars

(* ------- the state reader and the repairer on every small history ------ *)

\* what a row holds besides its identifier and its timestamp
Payloads == (0..MaxHistVer) \X BOOLEAN

\* a history table of n rows: identifiers 1..n, one row a second, each at
\* the fraction f of its second
HistTable(n, p, f) ==
    [exists |-> TRUE,
     rows |-> [i \in 1..n |-> Row(i, p[i][1], p[i][2], i * TicksPerSecond + f)],
     serial |-> n + 1,
     clock |-> (n + 1) * TicksPerSecond + f,
     schema |-> {},
     fault |-> "none"]

\* the steps of createVersionTable the database can refuse
CreateFaults == {"begin", "create", "exec", "commit"}

\* every history table of at most MaxHistLen rows, or no table and a
\* database that refuses one step of the transaction creating it, or none
InitHist ==
    /\ \/ \E n \in 0..MaxHistLen : \E p \in [1..n -> Payloads] :
            \E f \in 0..(TicksPerSecond - 1) : db = HistTable(n, p, f)
       \/ \E f \in CreateFaults \cup {"none"} : db = [NoTable EXCEPT !.fault = f]
    /\ files = {}
    /\ pc = "idle"
    /\ ms = <<>>
    /\ target = 0
    /\ executed = <<>>
    /\ ret = Result("none", "nil", 0)
    /\ before = db
    /\ input = <<>>
    /\ appliedArg = {}
    /\ dir = NoFiles
    /\ registered = NoRegistry
    /\ args = <<>>
    /\ broken = {}

\* the current-version query on the table
HistGetDBVersion ==
    /\ ret.op = "none"
    /\ LET g == GetDBVersion(db)
       IN /\ db' = g.db
          /\ ret' = Result("GetDBVersion", g.err, g.version)
    /\ before' = db
    /\ UNCHANGED <<files, pc, ms, target, executed, input, appliedArg, dir, registered, args, broken>>

\* the repair on the table
HistFixUp ==
    /\ ret.op = "none"
    /\ db.exists
    /\ db' = fixUp(db)
    /\ ret' = Result("fixUp", "nil", 0)
    /\ before' = db
    /\ UNCHANGED <<files, pc, ms, target, executed, input, appliedArg, dir, registered, args, broken>>

\* a second current-version query, after the one that found no table
HistGetDBVersionAgain ==
    /\ ret.op = "GetDBVersion"
    /\ ~before.exists
    /\ LET g == GetDBVersion(db)
       IN /\ db' = g.db
          /\ ret' = Result("GetDBVersionAgain", g.err, g.version)
    /\ UNCHANGED <<files, pc, ms, target, executed, before, input, appliedArg, dir, registered, args, broken>>

\* AppliedDBVersions on the table
HistAppliedDBVersions ==
    /\ ret.op = "none"
    /\ LET a == AppliedDBVersions(db)
       IN /\ db' = a.db
          /\ appliedArg' = a.applied
          /\ ret' = Result("AppliedDBVersions", a.err, 0)
    /\ before' = db
    /\ UNCHANGED <<files, pc, ms, target, executed, input, dir, registered, args, broken>>

NextHist ==
    \/ HistGetDBVersion
    \/ HistGetDBVersionAgain
    \/ HistFixUp
    \/ HistAppliedDBVersions

SpecHist == InitHist /\ [][NextHist]_vars

(* --------- the collectors of one process with its registry ------------- *)

RegVersions == 1..MaxRegVer

\* the bounds the collectors are called with
RegBounds == 0..(MaxRegVer + 1)

\* every directory of at most MaxDirLen files, scripts and Go files, two
\* files of one kind may carry the same version; nothing is registered
InitReg ==
    /\ \E k \in 0..MaxDirLen : \E l \in 0..(MaxDirLen - k) :
          \E s \in [1..k -> RegVersions] : \E g \in [1..l -> RegVersions] :
             dir = [sql |-> s, go |-> g]
    /\ registered = NoRegistry
    /\ files = {}
    /\ db = NoTable
    /\ pc = "idle"
    /\ ms = <<>>
    /\ target = 0
    /\ executed = <<>>
    /\ ret = Result("none", "nil", 0)
    /\ before = NoTable
    /\ input = <<>>
    /\ appliedArg = {}
    /\ args = <<>>
    /\ broken = {}

\* goose.AddNamedMigration with a name of version v; a panic ends the process
RegAddNamedMigration(v) ==
    /\ pc \in {"idle", "last"}
    /\ LET r == AddNamedMigration(registered, v)
       IN /\ registered' = r.reg
          /\ ret' = Result("AddNamedMigration", r.err, v)
          /\ pc' = IF r.err = "panic" THEN "exit" ELSE pc
    /\ UNCHANGED <<files, db, ms, target, executed, before, input, appliedArg, dir, args, broken>>

\* CollectMigrations(dir, current, tgt); input keeps the migrations as they
\* were collected.  A process at "last" exits after the call.
RegCollect(current, tgt) ==
    /\ pc \in {"idle", "last"}
    /\ LET r == CollectMigrations(dir, registered, current, tgt)
       IN /\ ms' = r.ms
          /\ registered' = r.reg
          /\ input' = r.collected
          /\ ret' = Result("CollectMigrations", r.err, 0)
          /\ pc' = IF r.err = "panic" \/ pc = "last" THEN "exit" ELSE pc
    /\ UNCHANGED <<files, db, target, executed, before, appliedArg, dir, args, broken>>

\* CollectAllMigrations(dir, applied, current, tgt)
RegCollectAll(applied, current, tgt) ==
    /\ pc \in {"idle", "last"}
    /\ LET r == CollectAllMigrations(dir, registered, applied, current, tgt)
       IN /\ ms' = r.ms
          /\ registered' = r.reg
          /\ input' = r.collected
          /\ ret' = Result("CollectAllMigrations", r.err, 0)
          /\ pc' = IF r.err = "panic" \/ pc = "last" THEN "exit" ELSE pc
    /\ UNCHANGED <<files, db, target, executed, before, appliedArg, dir, args, broken>>

NextReg ==
    \/ \E v \in RegVersions : RegAddNamedMigration(v)
    \/ \E c, t \in RegBounds : RegCollect(c, t)
    \/ \E a \in SUBSET RegVersions : \E c, t \in RegBounds : RegCollectAll(a, c, t)

\* a process that calls the collectors any number of times
SpecReg == InitReg /\ [][NextReg]_vars

\* a process that registers its migrations and calls a collector once
InitColl ==
    /\ \E k \in 0..MaxDirLen : \E l \in 0..(MaxDirLen - k) :
          \E s \in [1..k -> RegVersions] : \E g \in [1..l -> RegVersions] :
             dir = [sql |-> s, go |-> g]
    /\ registered = NoRegistry
    /\ files = {}
    /\ db = NoTable
    /\ pc = "last"
    /\ ms = <<>>
    /\ target = 0
    /\ executed = <<>>
    /\ ret = Result("none", "nil", 0)
    /\ before = NoTable
    /\ input = <<>>
    /\ appliedArg = {}
    /\ args = <<>>
    /\ broken = {}

SpecColl == InitColl /\ [][NextReg]_vars

(* ------------- one migration run on every small history --------------- *)

\* the steps of the transaction of run the database can refuse
RunFaults == {"begin", "fn", "exec", "commit"}

\* every history table of at most MaxRunLen rows, or no table, on a database
\* that refuses one step of the next transaction, or none
InitRun ==
    /\ \E f \in RunFaults \cup {"none"} :
          \/ \E n \in 0..MaxRunLen : \E p \in [1..n -> Payloads] :
                db = [HistTable(n, p, 0) EXCEPT !.fault = f]
          \/ db = [NoTable EXCEPT !.fault = f]
    /\ files = {}
    /\ pc = "idle"
    /\ ms = <<>>
    /\ target = 0
    /\ executed = <<>>
    /\ ret = Result("none", "nil", 0)
    /\ before = db
    /\ input = <<>>
    /\ appliedArg = {}
    /\ dir = NoFiles
    /\ registered = NoRegistry
    /\ args = <<>>
    /\ broken = {}

\* the migrations of version v: a script, a registered Go migration, a Go
\* file that is not registered
MigrationsOf(v) == {Migration(v), GoMigration(v, TRUE), GoMigration(v, FALSE)}

\* m.Up(db); ms keeps the migration.  The database has assigned at most
\* MaxRunLen row identifiers so far.
RunUp(m) ==
    /\ db.serial <= MaxRunLen + 1
    /\ LET r == MigrationUp(db, m)
       IN /\ db' = r.db
          /\ ret' = Result("Up", r.err, m.Version)
    /\ ms' = <<m>>
    /\ before' = db
    /\ UNCHANGED <<files, pc, target, executed, input, appliedArg, dir, registered, args, broken>>

\* m.Down(db)
RunDown(m) ==
    /\ db.serial <= MaxRunLen + 1
    /\ LET r == MigrationDown(db, m)
       IN /\ db' = r.db
          /\ ret' = Result("Down", r.err, m.Version)
    /\ ms' = <<m>>
    /\ before' = db
    /\ UNCHANGED <<files, pc, target, executed, input, appliedArg, dir, registered, args, broken>>

NextRun ==
    \/ \E v \in 1..MaxRunVer : \E m \in MigrationsOf(v) : RunUp(m)
    \/ \E v \in 1..MaxRunVer : \E m \in MigrationsOf(v) : RunDown(m)

SpecRun == InitRun /\ [][NextRun]_vars

(* ------------------------------ properties ---------------------------- *)

VersionsOf(mseq) == {mseq[i].Version : i \in 1..Len(mseq)}

\* the versions met from version v on by following Next links until -1, at
\* most fuel of them
RECURSIVE WalkNext(_, _, _)
WalkNext(mseq, v, fuel) ==
    IF v = -1 \/ fuel = 0 \/ v \notin VersionsOf(mseq) THEN <<>>
    ELSE <<v>> \o WalkNext(mseq, MigrationsCurrent(mseq, v).m.Next, fuel - 1)

\* the same along Previous links
RECURSIVE WalkPrevious(_, _, _)
WalkPrevious(mseq, v, fuel) ==
    IF v = -1 \/ fuel = 0 \/ v \notin VersionsOf(mseq) THEN <<>>
    ELSE <<v>> \o WalkPrevious(mseq, MigrationsCurrent(mseq, v).m.Previous, fuel - 1)

Reverse(s) == [i \in 1..Len(s) |-> s[Len(s) + 1 - i]]

\* the versions whose record with the highest identifier is an applied one
LatestApplied(rows) ==
    {rows[i].VersionID : i \in {k \in 1..Len(rows) :
        /\ rows[k].IsApplied
        /\ \A j \in 1..Len(rows) :
              rows[j].VersionID = rows[k].VersionID => rows[j].ID <= rows[k].ID}}

\* the current version of the database the operation began on
StartCurrent == GetDBVersion(before)

UpToReturned == pc = "idle" /\ ret.op = "UpTo"
UpAllReturned == pc = "idle" /\ ret.op = "UpAll"

\* C1: after sortAndConnectAllMigrations, following Next from the first
\* element of the result until -1 visits the applied versions in ascending
\* order and then the unapplied versions in ascending order, each once.
C1_ReconcilingTraversal ==
    ret.op = "sortAndConnectAllMigrations" =>
        LET A == VersionsOf(input) \cap appliedArg
            U == VersionsOf(input) \ appliedArg
            first == IF ms = <<>> THEN -1 ELSE ms[1].Version
        IN WalkNext(ms, first, Len(input) + 1) = Listing(A) \o Listing(U)

\* C2: the loop of UpAll terminates.  The next migration is a function of the
\* version executed last and of the fixed links, so the loop runs forever
\* exactly when it executes some migration a second time: no UpAll run
\* executes a migration twice.
C2_UpAllTerminates ==
    pc = "UpAll" =>
        \A i, j \in 1..Len(executed) : i # j => executed[i] # executed[j]

\* C3: when UpAll returns success, the most recent history record of every
\* collected version is an applied one.
C3_UpAllAppliesAll ==
    (UpAllReturned /\ ret.err = "nil") => VersionsOf(ms) \subseteq LatestApplied(db.rows)

\* C4: UpTo(target) on a database at version c (0 or a collected version,
\* target > c), no execution failing, executes exactly the collected versions in (c, target] in
\* ascending order, inserts one applied record for each, returns success and
\* leaves the database at the largest collected version.
C4_UpToAppliesRange ==
    (/\ UpToReturned
     /\ StartCurrent.err = "nil"
     /\ StartCurrent.version = 0 \/ StartCurrent.version \in VersionsOf(ms)
     /\ target > StartCurrent.version
     /\ ret.err \notin RunErrors)
    => LET c == StartCurrent.version
           base == Len(StartCurrent.db.rows)
           range == {v \in VersionsOf(ms) : c < v /\ v <= target}
       IN /\ ret.err = "nil"
          /\ executed = Listing(range)
          /\ Len(db.rows) = base + Len(executed)
          /\ \A k \in 1..Len(executed) :
                /\ db.rows[base + k].VersionID = executed[k]
                /\ db.rows[base + k].IsApplied
          /\ VersionsOf(ms) # {} =>
                /\ GetDBVersion(db).err = "nil"
                /\ \A v \in VersionsOf(ms) : v <= GetDBVersion(db).version
                /\ GetDBVersion(db).version \in VersionsOf(ms)

\* C5: sortAndConnectMigrations on fresh migrations: the result is ascending
\* by version, the Next walk from the minimum and the Previous walk from the
\* maximum each visit every element once, and the ends carry -1.
C5_SimpleOrdering ==
    ret.op = "sortAndConnectMigrations" =>
        LET asc == Listing(VersionsOf(input))
            n == Len(ms)
        IN /\ [i \in 1..n |-> ms[i].Version] = asc
           /\ n > 0 =>
                /\ WalkNext(ms, asc[1], n + 1) = asc
                /\ WalkPrevious(ms, asc[n], n + 1) = Reverse(asc)
                /\ ms[1].Previous = -1
                /\ ms[n].Next = -1

\* C5 witness: an unsorted input of three migrations was sequenced
C5_Witness ==
    /\ ret.op = "sortAndConnectMigrations"
    /\ Len(ms) >= 3
    /\ input[1].Version > input[2].Version

\* C6: after the repair of a successful UpAll, no two rows have their
\* identifiers in one order and their versions in the other.
C6_FixUpConsistent ==
    (UpAllReturned /\ ret.err = "nil") =>
        \A i, j \in 1..Len(db.rows) :
            db.rows[i].ID < db.rows[j].ID => db.rows[i].VersionID <= db.rows[j].VersionID

PayloadOf(row) == <<row.VersionID, row.IsApplied, row.TStamp>>

\* C7: fixUp keeps the set of row identifiers, the multiset of (version,
\* flag, timestamp) payloads and the set of applied versions.
C7_FixUpPreserves ==
    ret.op = "fixUp" =>
        /\ {before.rows[i].ID : i \in 1..Len(before.rows)}
              = {db.rows[i].ID : i \in 1..Len(db.rows)}
        /\ Len(before.rows) = Len(db.rows)
        /\ \A k \in 1..Len(db.rows) :
              Cardinality({i \in 1..Len(db.rows) :
                              PayloadOf(db.rows[i]) = PayloadOf(db.rows[k])})
              = Cardinality({i \in 1..Len(before.rows) :
                              PayloadOf(before.rows[i]) = PayloadOf(db.rows[k])})
        /\ LatestApplied(before.rows) = LatestApplied(db.rows)

\* C8: on a table with a version whose latest record is applied, the current
\* version is that of the applied record with the highest identifier among
\* the versions whose latest record is not a rollback.
C8_CurrentVersion ==
    (ret.op = "GetDBVersion" /\ before.exists /\ LatestApplied(before.rows) # {}) =>
        LET rows == before.rows
            cand == {i \in 1..Len(rows) :
                        rows[i].IsApplied /\ rows[i].VersionID \in LatestApplied(rows)}
        IN /\ ret.err = "nil"
           /\ \E i \in cand :
                 /\ \A j \in cand : rows[j].ID <= rows[i].ID
                 /\ ret.version = rows[i].VersionID

\* C8 witness: a version was returned although a row with a higher
\* identifier is an applied record of another version, rolled back since
C8_Witness ==
    /\ ret.op = "GetDBVersion"
    /\ ret.err = "nil"
    /\ \E i, j, k \in 1..Len(before.rows) :
          /\ before.rows[i].VersionID = ret.version /\ before.rows[i].IsApplied
          /\ i < j /\ j < k
          /\ before.rows[j].IsApplied /\ before.rows[j].VersionID # ret.version
          /\ ~before.rows[k].IsApplied
          /\ before.rows[k].VersionID = before.rows[j].VersionID
          /\ \A l \in 1..Len(before.rows) :
                before.rows[l].VersionID = ret.version => l <= i

\* C9: on an existing table without any version whose latest record is
\* applied, the current-version query fails with ErrNoCurrentVersion.
C9_NoCurrentVersion ==
    (ret.op = "GetDBVersion" /\ before.exists /\ LatestApplied(before.rows) = {}) =>
        ret.err = "ErrNoCurrentVersion"

\* C10: when no collected migration comes after the current version, UpTo
\* returns success and has executed nothing.
C10_UpToNothingLeft ==
    (/\ UpToReturned
     /\ StartCurrent.err = "nil"
     /\ \A v \in VersionsOf(ms) : v <= StartCurrent.version)
    => (ret.err = "nil" /\ executed = <<>>)

\* C11: versionFilter(v, current, target) is true exactly when target >
\* current and current < v <= target, or target < current and target < v <=
\* current; it is false for every v when target = current.
C11_VersionFilter ==
    ret.op = "versionFilter" =>
        LET v == args[1]
            current == args[2]
            tgt == args[3]
        IN /\ (ret.err = "true") <=>
                 \/ (tgt > current /\ current < v /\ v <= tgt)
                 \/ (tgt < current /\ tgt < v /\ v <= current)
           /\ v = current /\ tgt > current => ret.err = "false"
           /\ v = current /\ tgt < current => ret.err = "true"
           /\ v = tgt /\ tgt > current => ret.err = "true"
           /\ v = tgt /\ tgt < current => ret.err = "false"
           /\ tgt = current => ret.err = "false"

\* C11 witness: the filter was applied at the boundary v = current of a
\* backward range and kept the version
C11_Witness ==
    /\ ret.op = "versionFilter"
    /\ args[1] = args[2]
    /\ args[3] < args[2]
    /\ ret.err = "true"

\* C16: after sortAndConnectAllMigrations the links form a simple path over
\* the result: m.Next = n.Version exactly when n.Previous = m.Version, one
\* migration has Previous = -1 and one has Next = -1, and following Next
\* from any migration ends without meeting a migration twice.
C16_SimplePath ==
    (ret.op = "sortAndConnectAllMigrations" /\ ms # <<>>) =>
        LET n == Len(ms)
        IN /\ \A i, j \in 1..n :
                 (ms[i].Next = ms[j].Version) <=> (ms[j].Previous = ms[i].Version)
           /\ Cardinality({i \in 1..n : ms[i].Previous = -1}) = 1
           /\ Cardinality({i \in 1..n : ms[i].Next = -1}) = 1
           /\ \A i \in 1..n : Len(WalkNext(ms, ms[i].Version, n + 1)) <= n

\* C18: the sequence sortAndConnectAllMigrations returns lists the applied
\* migrations by ascending version, then the unapplied ones by ascending
\* version, every collected migration once.
C18_ReconcilingOrder ==
    ret.op = "sortAndConnectAllMigrations" =>
        LET A == VersionsOf(input) \cap appliedArg
            U == VersionsOf(input) \ appliedArg
        IN /\ [i \in 1..Len(ms) |-> ms[i].Version] = Listing(A) \o Listing(U)
           /\ Len(ms) = Len(input)

\* C18 witness: three migrations were sequenced, the one of the smallest
\* version unapplied and the other two applied
C18_Witness ==
    /\ ret.op = "sortAndConnectAllMigrations"
    /\ Len(ms) = 3
    /\ ms[3].Version < ms[1].Version
    /\ ms[1].Version \in appliedArg
    /\ ms[2].Version \in appliedArg
    /\ ms[3].Version \notin appliedArg

\* C19: the map AppliedDBVersions returns holds exactly the versions whose
\* record with the highest identifier is an applied one; a version rolled
\* back last is not a key, whatever its older records are.
C19_AppliedVersions ==
    (ret.op = "AppliedDBVersions" /\ before.exists) =>
        /\ ret.err = "nil"
        /\ appliedArg = LatestApplied(before.rows)
        /\ db = before

\* C19 witness: the map was returned for a table where one version has an
\* applied record and a later rollback, and another version is applied
C19_Witness ==
    /\ ret.op = "AppliedDBVersions"
    /\ appliedArg # {}
    /\ \E i, j \in 1..Len(before.rows) :
          /\ i < j
          /\ before.rows[i].VersionID = before.rows[j].VersionID
          /\ before.rows[i].IsApplied
          /\ ~before.rows[j].IsApplied
          /\ before.rows[i].VersionID \notin appliedArg

\* C20: the current-version query on a database without history table
\* creates the table with the single record {0, true} and returns 0, and so
\* does a second query; when the database refuses a step of the creating
\* transaction the error is returned and the database is as before.
C20_MissingTable ==
    (ret.op \in {"GetDBVersion", "GetDBVersionAgain"} /\ ~before.exists) =>
        IF before.fault \in CreateFaults
        THEN /\ ret.err = before.fault
             /\ ret.version = -1
             /\ db = before
        ELSE /\ ret.err = "nil"
             /\ ret.version = 0
             /\ db.exists
             /\ Len(db.rows) = 1
             /\ db.rows[1].VersionID = 0
             /\ db.rows[1].IsApplied

\* C20 witness: the table was created by the first query and read by the
\* second
C20_Witness ==
    /\ ret.op = "GetDBVersionAgain"
    /\ ~before.exists
    /\ db.exists
    /\ ret.version = 0

\* C12: the forward run of a registered Go migration returns nil exactly
\* when the procedure, the history insert and the commit succeeded, and then
\* the changes of the procedure and one applied record of the version are in
\* the database; when it returns an error the database is as before.
C12_RunAtomic ==
    (ret.op = "Up" /\ ms[1].Source = ".go" /\ ms[1].Registered) =>
        /\ (ret.err = "nil") <=> (before.exists /\ before.fault \notin RunFaults)
        /\ IF ret.err = "nil"
           THEN /\ Len(db.rows) = Len(before.rows) + 1
                /\ SubSeq(db.rows, 1, Len(before.rows)) = before.rows
                /\ db.rows[Len(db.rows)].VersionID = ms[1].Version
                /\ db.rows[Len(db.rows)].IsApplied
                /\ db.schema = before.schema \cup {ms[1].Version}
           ELSE /\ ret.err \in RunErrors
                /\ db = before

\* C12 witness: the commit of the forward run of a registered Go migration
\* was refused on a table that holds records
C12_Witness ==
    /\ ret.op = "Up"
    /\ ms[1].Source = ".go"
    /\ ms[1].Registered
    /\ before.fault = "commit"
    /\ ret.err = "failed to commit transaction"
    /\ Len(before.rows) = MaxRunLen

\* C13: when the run of a migration m fails in UpTo or UpAll, the call
\* returns that error at once: the history holds, after the records it held
\* when the call began, one applied record for each migration executed
\* before m and nothing else, and the current version is the version of the
\* migration executed last, or the one the call began on.
C13_FailureAborts ==
    (ret.op \in {"UpTo", "UpAll"} /\ ret.err \in RunErrors) =>
        LET base == Len(StartCurrent.db.rows)
            n == Len(executed)
        IN /\ pc = "idle"
           /\ Len(db.rows) = base + n
           /\ SubSeq(db.rows, 1, base) = StartCurrent.db.rows
           /\ \A k \in 1..n :
                 /\ db.rows[base + k].VersionID = executed[k]
                 /\ db.rows[base + k].IsApplied
           /\ GetDBVersion(db).err = "nil"
           /\ GetDBVersion(db).version =
                 IF n = 0 THEN StartCurrent.version ELSE executed[n]

\* C13 witness: UpTo returned the error of a failed run after it executed a
\* migration, with a collected migration left behind the failed one
C13_Witness ==
    /\ UpToReturned
    /\ ret.err = "failed to run SQL migration"
    /\ executed # <<>>
    /\ \E v \in VersionsOf(ms) : v > ret.version

\* C15: UpAll executes forward only versions that are unapplied at that
\* moment: when the loop has just executed a migration, the latest record
\* of its version among the records the history held before was not an
\* applied one.
C15_UpAllIdempotent ==
    (pc = "UpAll" /\ executed # <<>>) =>
        LET v == executed[Len(executed)]
            held == SubSeq(db.rows, 1, Len(db.rows) - 1)
        IN /\ db.rows[Len(db.rows)].VersionID = v
           /\ v \notin LatestApplied(held)

\* the versions of a sequence of migrations are pairwise distinct
DistinctVersions(mseq) ==
    \A i, j \in 1..Len(mseq) : i # j => mseq[i].Version # mseq[j].Version

\* what C14 says of the state a collector or a registration leaves
C14_State ==
    /\ \A m, n \in registered : m.Version = n.Version => m = n
    /\ ret.op \in {"CollectMigrations", "CollectAllMigrations"} =>
          /\ (ret.err = "panic") <=> ~DistinctVersions(input)
          /\ ret.err \in {"nil", "panic"}
          /\ ret.err = "nil" =>
                /\ DistinctVersions(ms)
                /\ Len(ms) = Len(input)
                /\ VersionsOf(ms) = VersionsOf(input)
          /\ \A i \in 1..Len(input) :
                (input[i].Source = ".go" /\ ~input[i].Registered)
                    => ~IsRegistered(registered, input[i].Version)

\* what C14 says of a registration
C14_Step ==
    \A v \in RegVersions :
        (RegAddNamedMigration(v) /\ IsRegistered(registered, v)) =>
            (ret'.err = "panic" /\ registered' = registered /\ pc' = "exit")

\* C14: versions are unique.  Registering a version that is registered
\* already panics; a collector panics in the sort exactly when two of the
\* collected migrations share a version; a Go file whose version is
\* registered is not collected; every sequence a collector returns has
\* pairwise distinct versions.
C14_UniqueVersions == [](C14_State) /\ [][C14_Step]_vars

\* C14 witness: a collector returned a sequence with a registered migration
\* whose version a Go file of the directory carries too
C14_Witness ==
    /\ ret.op \in {"CollectMigrations", "CollectAllMigrations"}
    /\ ret.err = "nil"
    /\ \E i \in 1..Len(ms) : \E k \in 1..Len(dir.go) :
          ms[i].Registered /\ ms[i].Version = dir.go[k]

\* C17: after every call of a collector the first migration returned has
\* Previous = -1, the last has Next = -1, and every link of a returned
\* migration is -1 or the version of a returned migration.
C17_LinksRecomputed ==
    (/\ ret.op \in {"CollectMigrations", "CollectAllMigrations"}
     /\ ret.err = "nil"
     /\ ms # <<>>) =>
        /\ ms[1].Previous = -1
        /\ ms[Len(ms)].Next = -1
        /\ \A i \in 1..Len(ms) :
              /\ ms[i].Next \in VersionsOf(ms) \cup {-1}
              /\ ms[i].Previous \in VersionsOf(ms) \cup {-1}

\* C21: a Go file that is not registered is never run.  No apply loop
\* executes it, the history holds no record of its version and the database
\* none of its changes; the loop that reaches it returns the error of the
\* missing registration, also when the database would refuse db.Begin, and
\* leaves the history at the records of the start plus one applied record
\* per migration executed before, the current version being that of the
\* last of them or the one the call began on.
C21_UnregisteredGo ==
    /\ \A k \in 1..Len(executed) : executed[k] \notin GoVersions(dir)
    /\ \A i \in 1..Len(db.rows) : db.rows[i].VersionID \notin GoVersions(dir)
    /\ db.schema \cap GoVersions(dir) = {}
    /\ (/\ ret.op \in {"UpTo", "UpAll"}
        /\ ret.err \in RunErrors
        /\ ret.version \in GoVersions(dir)) =>
          LET base == Len(StartCurrent.db.rows)
              n == Len(executed)
          IN /\ ret.err = "Go functions must be registered"
             /\ pc = "idle"
             /\ Len(db.rows) = base + n
             /\ SubSeq(db.rows, 1, base) = StartCurrent.db.rows
             /\ GetDBVersion(db).version =
                   IF n = 0 THEN StartCurrent.version ELSE executed[n]

\* C21 witness: UpAll executed a script and then returned the error of the
\* missing registration on a Go file whose transaction the database would
\* have refused
C21_Witness ==
    /\ UpAllReturned
    /\ ret.err = "Go functions must be registered"
    /\ ret.version \in GoVersions(dir) \cap broken
    /\ executed # <<>>

\* C22: Up and Down only add records.  After m.Up or m.Down every record
\* the history held before is still there, under its identifier and with
\* its payload, and a successful Down has added one record of the version
\* with the applied flag false.
C22_AppendOnly ==
    ret.op \in {"Up", "Down"} =>
        /\ \A i \in 1..Len(before.rows) :
              \E j \in 1..Len(db.rows) : db.rows[j] = before.rows[i]
        /\ (ret.op = "Down" /\ ret.err = "nil") =>
              /\ Len(db.rows) = Len(before.rows) + 1
              /\ db.rows[Len(db.rows)].VersionID = ret.version
              /\ ~db.rows[Len(db.rows)].IsApplied

====
